---- MODULE Spec2Model ----
(***************************************************************************)
(* Model of the HMC58X3 magnetometer driver (src/src/HMC58X3/HMC58X3.cpp). *)
(* The driver object holds three scale factors; every public method talks  *)
(* to the device through the bus transport.  The transport operations a    *)
(* call performs are recorded, in order, in `ops`.  The self test          *)
(* calibration is modelled step by step (pc), the short methods in one     *)
(* step each.                                                              *)
(***************************************************************************)
EXTENDS Integers, Sequences, FiniteSets, TLC

(***************************************************************************)
(* Bounds of the model.                                                    *)
(***************************************************************************)
\* largest n_samples argument passed to calibrate(gain, n_samples)
MaxSamples == 2
\* largest argument passed to setMode / setGain / setDOR / calibrate
MaxArg == 8

\* the arguments the methods are called with: the ends of the accepted range
\* and the values above it
ModeArgs == {0, 1, 2} \cup 3..MaxArg
GainArgs == {0, 7} \cup 8..MaxArg
DORArgs == {0, 6} \cup 7..MaxArg
SampleArgs == 0..MaxSamples

(***************************************************************************)
(* Constants of HMC58X3.h (register map, bias patterns, self test data).   *)
(***************************************************************************)
HMC58X3_R_CONFA == 0
HMC58X3_R_CONFB == 1
HMC58X3_R_MODE == 2
HMC58X3_R_XM == 3
HMC58X3_R_IDA == 10
HMC_POS_BIAS == 1
HMC_NEG_BIAS == 2
\* SELF_TEST_LOW_LIMIT = 243.0/390.0, SELF_TEST_HIGH_LIMIT = 575.0/390.0
SELF_TEST_LOW_NUM == 243
SELF_TEST_HIGH_NUM == 575
SELF_TEST_DEN == 390
\* HMC58X3_{X,Y,Z}_SELF_TEST_GAUSS = 1.16, 1.16, 1.08, in hundredths
HMC58X3_X_SELF_TEST_GAUSS == 116
HMC58X3_Y_SELF_TEST_GAUSS == 116
HMC58X3_Z_SELF_TEST_GAUSS == 108

\* counts_per_milligauss[8], HMC5883L table, indexed by gain 0..7
counts_per_milligauss == <<1370, 1090, 820, 660, 440, 390, 330, 230>>

(***************************************************************************)
(* Fixed width integers.                                                   *)
(***************************************************************************)
\* conversion of an int to int16_t
ToInt16(v) == LET m == v % 65536 IN IF m >= 32768 THEN m - 65536 ELSE m
\* the largest int32_t
INT32_MAX == 2147483647

\* variant for totals declared int16_t
Overflows16(a, b) == a + b > 32767 \/ a + b < -32768

\* a + b is outside int32_t, for a in int32_t
Overflows(a, b) ==
    \/ b > 0 /\ a > INT32_MAX - b
    \/ b < 0 /\ a < (-INT32_MAX - 1) - b

\* a + b in int32_t arithmetic (wrapping), for a in int32_t and b in int16_t
Add32(a, b) ==
    IF b > 0 /\ a > INT32_MAX - b THEN (a - INT32_MAX - 1) + (b - INT32_MAX - 1)
    ELSE IF b < 0 /\ a < (-INT32_MAX - 1) - b THEN (a + INT32_MAX + 1) + (b + INT32_MAX + 1)
    ELSE a + b

\* total / n_samples as the code computes it: total is converted to unsigned
\* int (a negative total becomes total + 2^32) and the division is unsigned
UDiv(total, n_samples) ==
    IF total >= 0 THEN total \div n_samples
    ELSE LET a == (total + INT32_MAX) + 1
         IN  (INT32_MAX \div n_samples) + (a \div n_samples)
             + ((INT32_MAX % n_samples) + (a % n_samples) + 1) \div n_samples

\* the min(a,b) macro
min(a, b) == IF a < b THEN a ELSE b

(***************************************************************************)
(* What the bus transport can answer.                                      *)
(***************************************************************************)
\* identity register contents: 'H','4','3' and answers wrong in one byte
IdAnswers == { <<72, 52, 51>>, <<73, 52, 51>>, <<72, 53, 51>>, <<72, 52, 50>> }

\* field values (x, y, z) the device may measure
FieldValues ==
    { <<0, 0, 0>>, <<0, 0, 1>>,
      <<286, 286, 286>>, <<678, 678, 679>>,
      <<286, 286, -4096>>, <<0, 0, -4382>> }

\* the six data registers of the HMC5883L for a field value: X, Z, Y, each
\* big endian two's complement
DataRegisters(f) ==
    LET hi(v) == (v % 65536) \div 256
        lo(v) == v % 256
    IN  << hi(f[1]), lo(f[1]), hi(f[3]), lo(f[3]), hi(f[2]), lo(f[2]) >>

\* the 6-byte answers to a read of the data registers
DataAnswers == { DataRegisters(f) : f \in FieldValues }

VARIABLES
    x_scale, y_scale, z_scale,  \* scale factors, each a fraction <<num, den>>
    pc,         \* position of the running call; "done" when none is running
    op,         \* the method called last
    arg,        \* its arguments
    ret,        \* its return value ("void" for a void method)
    ops,        \* transport operations and delays of the call, in order
    werr,       \* the transport reported a failure for the write of the last short method
    rerr,       \* the transport reported a failure for the last identity read
    scale0,     \* the three scale factors when the call started
    xyz_total,  \* calibrate: running totals
    bret,       \* calibrate: result flag
    i,          \* calibrate: loop counter
    id,         \* calibrate: the identity bytes, << >> before getID fills them
    sat,        \* calibrate: a loop sample was at or below -4096
    lastw,      \* value last written to each register, -1 when never written
    mxyz,       \* calibrate(gain): the maxima mx, my, mz, as fractions
    possat,     \* calibrate: a sample of the positive loop was at or below -4096
    ovf,        \* calibrate: an addition to a total left the range of int32_t
    xyz         \* calibrate: the sample read last, << >> before the first

vars == << x_scale, y_scale, z_scale, pc, op, arg, ret, ops, werr, rerr, scale0,
           xyz_total, bret, i, id, sat, lastw, mxyz, possat, ovf, xyz >>

\* the locals and records that only a running calibration uses
extra == << mxyz, possat, ovf, xyz >>
Zero == <<0, 1>>
NoExtra ==
    /\ mxyz' = << Zero, Zero, Zero >> /\ possat' = FALSE /\ ovf' = FALSE
    /\ xyz' = << >>

One == <<1, 1>>

\* log entries
W(reg, val) == <<"w", reg, val>>
R(reg, count) == <<"r", reg, count>>
D(ms) == <<"d", ms>>

\* HMC58X3::HMC58X3
Init ==
    /\ x_scale = One /\ y_scale = One /\ z_scale = One
    /\ pc = "done" /\ op = "HMC58X3" /\ arg = <<>> /\ ret = "void"
    /\ ops = <<>> /\ werr = FALSE /\ rerr = FALSE
    /\ scale0 = <<One, One, One>>
    /\ xyz_total = <<0, 0, 0>> /\ bret = TRUE /\ i = 0 /\ id = << >> /\ sat = FALSE
    /\ lastw = [r \in {HMC58X3_R_CONFA, HMC58X3_R_CONFB, HMC58X3_R_MODE} |-> -1]
    /\ mxyz = << Zero, Zero, Zero >> /\ possat = FALSE /\ ovf = FALSE
    /\ xyz = << >>

(***************************************************************************)
(* The short methods, as the transport operations they perform.            *)
(***************************************************************************)
\* HMC58X3::writeReg: one transport write; the transport's result is dropped
writeReg(reg, val) == << W(reg, val) >>

\* HMC58X3::setMode
setMode(mode) ==
    IF mode > 2 THEN << >>
    ELSE writeReg(HMC58X3_R_MODE, mode) \o << D(100) >>

\* variant of setGain that lets 8 through
setGainOffByOne(gain) ==
    IF gain > 8 THEN << >>
    ELSE writeReg(HMC58X3_R_CONFB, (gain * 32) % 256)

\* HMC58X3::setGain
setGain(gain) ==
    IF gain > 7 THEN << >>
    ELSE writeReg(HMC58X3_R_CONFB, (gain * 32) % 256)

\* variant of setDOR that writes the rate without shifting it
setDORNoShift(DOR) ==
    IF DOR > 6 THEN << >>
    ELSE writeReg(HMC58X3_R_CONFA, DOR % 256)

\* HMC58X3::setDOR
setDOR(DOR) ==
    IF DOR > 6 THEN << >>
    ELSE writeReg(HMC58X3_R_CONFA, (DOR * 4) % 256)

\* variant of init that sets the mode before the power-up delay
initModeFirst(setmode) ==
    (IF setmode THEN setMode(0) ELSE << >>)
    \o << D(5) >>
    \o writeReg(HMC58X3_R_CONFA, 112)
    \o writeReg(HMC58X3_R_CONFB, 160)
    \o writeReg(HMC58X3_R_MODE, 0)

\* HMC58X3::init
init(setmode) ==
    << D(5) >>
    \o (IF setmode THEN setMode(0) ELSE << >>)
    \o writeReg(HMC58X3_R_CONFA, 112)
    \o writeReg(HMC58X3_R_CONFB, 160)
    \o writeReg(HMC58X3_R_MODE, 0)

\* HMC58X3::getRaw: the values assembled from the six bytes rx, and the read
getRaw(rx) ==
    [ x |-> ToInt16(rx[1] * 256 + rx[2]),
      z |-> ToInt16(rx[3] * 256 + rx[4]),
      y |-> ToInt16(rx[5] * 256 + rx[6]),
      ops |-> << R(HMC58X3_R_XM, 6) >> ]

\* I2Ckernel::_read answers false when the read failed
ReadFailed(result) == result = FALSE

\* variant of getID with the test of the transport's result inverted
getIDInverted(readOk, bytes) ==
    [ id |-> IF readOk THEN <<0, 0, 0>> ELSE bytes,
      ops |-> << R(HMC58X3_R_IDA, 3) >> ]

\* HMC58X3::getID: the three bytes returned, given the transport's result;
\* bytes is what the buffer holds after the read
getID(readOk, bytes) ==
    [ id |-> IF ~readOk THEN <<0, 0, 0>> ELSE bytes,
      ops |-> << R(HMC58X3_R_IDA, 3) >> ]

\* HMC58X3::getValues(float*, float*, float*): raw / scale, as fractions
getValues(rx) ==
    LET r == getRaw(rx)
    IN  [ x |-> << r.x * x_scale[2], x_scale[1] >>,
          y |-> << r.y * y_scale[2], y_scale[1] >>,
          z |-> << r.z * z_scale[2], z_scale[1] >>,
          ops |-> r.ops ]

\* the quotient a / b rounded toward zero, for b > 0
TruncDiv(a, b) == IF a >= 0 THEN a \div b ELSE -((-a) \div b)

\* what a conversion of a NaN to int16_t may give
UndefinedInt16 == {-32768, 0}

\* (int16_t)(f + 0.5) for a float f = <<num, den>>: the possible results
Cast16(f) ==
    IF f[2] = 0 THEN UndefinedInt16
    ELSE { ToInt16(TruncDiv(2 * f[1] + f[2], 2 * f[2])) }

\* HMC58X3::getValues(int16_t*, int16_t*, int16_t*): the possible values per
\* axis, and the floats fx, fy, fz they are made from
getValues16(rx) ==
    LET v == getValues(rx)
    IN  [ x |-> Cast16(v.x), y |-> Cast16(v.y), z |-> Cast16(v.z),
          f |-> << v.x, v.y, v.z >>, ops |-> v.ops ]

\* the register writes of a sequence of operations
IsWrite(e) == e[1] = "w"
HasWrite(log) == \E k \in 1..Len(log) : IsWrite(log[k])

\* the last value written per register after the operations of log
RECURSIVE Written(_, _)
Written(log, regs) ==
    IF log = << >> THEN regs
    ELSE Written(Tail(log),
                 IF IsWrite(Head(log))
                 THEN [regs EXCEPT ![Head(log)[2]] = Head(log)[3]]
                 ELSE regs)

\* a method that runs in one step: what it leaves behind
Finish(name, args, log, result, fail, rfail) ==
    /\ pc = "done"
    /\ pc' = "done"
    /\ op' = name /\ arg' = args /\ ret' = result
    /\ ops' = log
    /\ werr' = (fail /\ HasWrite(log))
    /\ rerr' = rfail
    /\ lastw' = Written(log, lastw)
    /\ scale0' = << x_scale, y_scale, z_scale >>
    /\ xyz_total' = <<0, 0, 0>> /\ bret' = TRUE /\ i' = 0 /\ id' = << >> /\ sat' = FALSE
    /\ NoExtra
    /\ UNCHANGED << x_scale, y_scale, z_scale >>

DoInit ==
    \E setmode \in BOOLEAN, fail \in BOOLEAN :
        Finish("init", << setmode >>, init(setmode), "void", fail, FALSE)

DoSetMode ==
    \E mode \in ModeArgs, fail \in BOOLEAN :
        Finish("setMode", << mode >>, setMode(mode), "void", fail, FALSE)

DoSetGain ==
    \E gain \in GainArgs, fail \in BOOLEAN :
        Finish("setGain", << gain >>, setGain(gain), "void", fail, FALSE)

DoSetDOR ==
    \E DOR \in DORArgs, fail \in BOOLEAN :
        Finish("setDOR", << DOR >>, setDOR(DOR), "void", fail, FALSE)

DoGetRaw ==
    \E rx \in DataAnswers :
        LET r == getRaw(rx)
        IN  Finish("getRaw", << >>, r.ops, << r.x, r.y, r.z >>, FALSE, FALSE)

DoGetValues ==
    \E rx \in DataAnswers :
        LET r == getValues(rx)
        IN  Finish("getValues", << >>, r.ops, << r.x, r.y, r.z >>, FALSE, FALSE)

DoGetValues16 ==
    \E rx \in DataAnswers :
        LET r == getValues16(rx)
        IN  \E x \in r.x, y \in r.y, z \in r.z :
                Finish("getValues16", << >>, r.ops, << << x, y, z >>, r.f >>, FALSE, FALSE)

DoGetID ==
    \E readOk \in BOOLEAN, bytes \in IdAnswers :
        LET r == getID(readOk, bytes)
        IN  Finish("getID", << >>, r.ops, r.id, FALSE, ReadFailed(readOk))

(***************************************************************************)
(* calibrate(gain): the calibration by maxima, step by step.               *)
(***************************************************************************)
\* the number of readings, t
SimpleReadings == 10

\* f > g for two floats with positive denominators
FGreater(f, g) == f[1] * g[2] > g[1] * f[2]

RECURSIVE GCD(_, _)
GCD(a, b) == IF b = 0 THEN a ELSE GCD(b, a % b)

\* the float a / b for finite a >= 0 and b >= 0: infinite is <<1, 0>> and
\* NaN is <<0, 0>>
FDiv(a, b) ==
    LET n == a[1] * b[2]
        d == a[2] * b[1]
    IN  IF d = 0 THEN (IF n = 0 THEN <<0, 0>> ELSE <<1, 0>>)
        ELSE << n \div GCD(n, d), d \div GCD(n, d) >>

\* the call: scale factors to 1, positive bias, gain
CalibrateMax ==
    /\ pc = "done"
    /\ \E gain \in GainArgs :
        LET log == writeReg(HMC58X3_R_CONFA, 16 + HMC_POS_BIAS) \o setGain(gain)
        IN  /\ op' = "calibrate(gain)" /\ arg' = << gain >>
            /\ ops' = log
            /\ lastw' = Written(log, lastw)
    /\ x_scale' = One /\ y_scale' = One /\ z_scale' = One
    /\ scale0' = << x_scale, y_scale, z_scale >>
    /\ ret' = "none" /\ werr' = FALSE /\ rerr' = FALSE
    /\ xyz_total' = <<0, 0, 0>> /\ bret' = TRUE /\ i' = 0 /\ id' = << >> /\ sat' = FALSE
    /\ NoExtra
    /\ pc' = "maxloop"

\* one reading of the loop
MaxSample ==
    /\ pc = "maxloop" /\ i < SimpleReadings
    /\ \E rx \in DataAnswers :
        LET v == getValues(rx)
            log == setMode(1) \o v.ops
        IN  /\ ops' = ops \o log
            /\ lastw' = Written(log, lastw)
            /\ mxyz' = << IF FGreater(v.x, mxyz[1]) THEN v.x ELSE mxyz[1],
                           IF FGreater(v.y, mxyz[2]) THEN v.y ELSE mxyz[2],
                           IF FGreater(v.z, mxyz[3]) THEN v.z ELSE mxyz[3] >>
    /\ i' = i + 1
    /\ pc' = IF i + 1 < SimpleReadings THEN "maxloop" ELSE "maxend"
    /\ UNCHANGED << x_scale, y_scale, z_scale, op, arg, ret, werr, rerr, scale0,
                    xyz_total, bret, id, sat, possat, ovf, xyz >>

\* variant that gives up when no reading was positive
MaxEndGuarded ==
    /\ pc = "maxend"
    /\ LET m1 == IF FGreater(mxyz[1], Zero) THEN mxyz[1] ELSE Zero
           m2 == IF FGreater(mxyz[2], m1) THEN mxyz[2] ELSE m1
           max == IF FGreater(mxyz[3], m2) THEN mxyz[3] ELSE m2
           log == IF max = Zero THEN << >> ELSE writeReg(HMC58X3_R_CONFA, 16)
       IN  /\ x_scale' = IF max = Zero THEN scale0[1] ELSE FDiv(max, mxyz[1])
           /\ y_scale' = IF max = Zero THEN scale0[2] ELSE FDiv(max, mxyz[2])
           /\ z_scale' = IF max = Zero THEN scale0[3] ELSE FDiv(max, mxyz[3])
           /\ ops' = ops \o log
           /\ lastw' = Written(log, lastw)
    /\ pc' = "maxret"
    /\ UNCHANGED << op, arg, ret, werr, rerr, scale0, xyz_total, bret, i, id, sat, extra >>

\* the largest maximum, the scale factors, the default configuration; the
\* fields x_max, y_max, z_max receive the maxima and are read nowhere
MaxEnd ==
    /\ pc = "maxend"
    /\ LET m1 == IF FGreater(mxyz[1], Zero) THEN mxyz[1] ELSE Zero
           m2 == IF FGreater(mxyz[2], m1) THEN mxyz[2] ELSE m1
           max == IF FGreater(mxyz[3], m2) THEN mxyz[3] ELSE m2
       IN  /\ x_scale' = FDiv(max, mxyz[1])
           /\ y_scale' = FDiv(max, mxyz[2])
           /\ z_scale' = FDiv(max, mxyz[3])
    /\ LET log == writeReg(HMC58X3_R_CONFA, 16)
       IN  /\ ops' = ops \o log
           /\ lastw' = Written(log, lastw)
    /\ pc' = "maxret"
    /\ UNCHANGED << op, arg, ret, werr, rerr, scale0, xyz_total, bret, i, id, sat, extra >>

\* the end of calibrate(gain): the locals go out of scope
MaxReturn ==
    /\ pc = "maxret"
    /\ ret' = "void"
    /\ pc' = "done"
    /\ i' = 0
    /\ NoExtra
    /\ UNCHANGED << x_scale, y_scale, z_scale, op, arg, ops, werr, rerr, scale0,
                    xyz_total, bret, id, sat, lastw >>

(***************************************************************************)
(* calibrate(gain, n_samples): the self test calibration, step by step.    *)
(***************************************************************************)
\* variant of the parameter check that forgets the sample count
ParamsOkNoCount(gain, n_samples) == (8 > gain)

\* the parameter check
ParamsOk(gain, n_samples) == (8 > gain) /\ (0 < n_samples)

\* variant of the identity check that compares two bytes only
IdOkTwoBytes(b) == (72 = b[1]) /\ (52 = b[2])

\* the identity check: 'H', '4', '3'
IdOk(b) == (72 = b[1]) /\ (52 = b[2]) /\ (51 = b[3])

\* variant of the saturation check with a strict comparison
SaturatedStrict(x, y, z) == (-4096) > min(x, min(y, z))

\* the saturation check on one raw sample
Saturated(x, y, z) == (-4096) >= min(x, min(y, z))

\* variant of low_limit with the quotient 243/390 taken in integers
low_limit_intfactor(gain, n_samples) ==
    (SELF_TEST_LOW_NUM \div SELF_TEST_DEN) * counts_per_milligauss[gain + 1] * 2 * n_samples

\* the acceptance limits: the double product truncated to int32_t (for the
\* n_samples used here the truncated double equals this integer quotient)
low_limit(gain, n_samples) ==
    (SELF_TEST_LOW_NUM * counts_per_milligauss[gain + 1] * 2 * n_samples)
        \div SELF_TEST_DEN
high_limit(gain, n_samples) ==
    (SELF_TEST_HIGH_NUM * counts_per_milligauss[gain + 1] * 2 * n_samples)
        \div SELF_TEST_DEN

\* variant of the final test with the limits excluded
AcceptedStrict(b, total, gain, n_samples) ==
    /\ TRUE = b
    /\ low_limit(gain, n_samples) < total[1] /\ high_limit(gain, n_samples) > total[1]
    /\ low_limit(gain, n_samples) < total[2] /\ high_limit(gain, n_samples) > total[2]
    /\ low_limit(gain, n_samples) < total[3] /\ high_limit(gain, n_samples) > total[3]

\* variant of the final test that looks at the totals only
AcceptedLimitsOnly(b, total, gain, n_samples) ==
    /\ low_limit(gain, n_samples) <= total[1] /\ high_limit(gain, n_samples) >= total[1]
    /\ low_limit(gain, n_samples) <= total[2] /\ high_limit(gain, n_samples) >= total[2]
    /\ low_limit(gain, n_samples) <= total[3] /\ high_limit(gain, n_samples) >= total[3]

\* the final test: no saturation and the three totals within the limits
Accepted(b, total, gain, n_samples) ==
    /\ TRUE = b
    /\ low_limit(gain, n_samples) <= total[1] /\ high_limit(gain, n_samples) >= total[1]
    /\ low_limit(gain, n_samples) <= total[2] /\ high_limit(gain, n_samples) >= total[2]
    /\ low_limit(gain, n_samples) <= total[3] /\ high_limit(gain, n_samples) >= total[3]

\* a scale factor: counts_per_milligauss[gain]*(gauss*2) / (total/n_samples),
\* gauss in hundredths, total/n_samples the unsigned integer quotient
ScaleOf(gain, gauss, total, n_samples) ==
    << counts_per_milligauss[gain + 1] * (gauss * 2),
       100 * UDiv(total, n_samples) >>

\* the call and its parameter check
CalibrateWith(gains, counts) ==
    /\ pc = "done"
    /\ \E gain \in gains, n_samples \in counts :
        /\ op' = "calibrate" /\ arg' = << gain, n_samples >>
        /\ ops' = << >> /\ werr' = FALSE /\ rerr' = FALSE
        /\ scale0' = << x_scale, y_scale, z_scale >>
        /\ xyz_total' = <<0, 0, 0>> /\ i' = 0 /\ id' = << >> /\ sat' = FALSE
        /\ NoExtra
        /\ IF ParamsOk(gain, n_samples)
           THEN pc' = "getID" /\ bret' = TRUE
           ELSE pc' = "ret" /\ bret' = FALSE
        /\ ret' = "none"
    /\ UNCHANGED << x_scale, y_scale, z_scale, lastw >>

Calibrate == CalibrateWith(GainArgs, SampleArgs)

\* getID(id) and the identity check
CalGetID ==
    /\ pc = "getID"
    /\ \E readOk \in BOOLEAN, bytes \in IdAnswers :
        LET r == getID(readOk, bytes)
        IN  /\ ops' = ops \o r.ops
            /\ id' = r.id /\ rerr' = ReadFailed(readOk)
            /\ IF IdOk(r.id)
               THEN pc' = "posbias" /\ bret' = bret
               ELSE pc' = "ret" /\ bret' = FALSE
    /\ UNCHANGED << x_scale, y_scale, z_scale, op, arg, ret, werr, scale0,
                    xyz_total, i, sat, lastw, extra >>

\* variant that adds the first reading to the totals
CalPosBiasCounted ==
    /\ pc = "posbias"
    /\ \E rx \in DataAnswers :
        LET r == getRaw(rx)
            log == writeReg(HMC58X3_R_CONFA, 16 + HMC_POS_BIAS)
                   \o setGain(arg[1]) \o setMode(1) \o r.ops
        IN  /\ ops' = ops \o log
            /\ lastw' = Written(log, lastw)
            /\ xyz' = << r.x, r.y, r.z >>
            /\ xyz_total' = << r.x, r.y, r.z >>
    /\ i' = 0
    /\ pc' = IF 0 < arg[2] THEN "posloop" ELSE "negbias"
    /\ UNCHANGED << x_scale, y_scale, z_scale, op, arg, ret, werr, rerr, scale0,
                    bret, id, sat, mxyz, possat, ovf >>

\* positive bias, the gain, and the first reading, which is ignored
CalPosBias ==
    /\ pc = "posbias"
    /\ \E rx \in DataAnswers :
        LET r == getRaw(rx)
            log == writeReg(HMC58X3_R_CONFA, 16 + HMC_POS_BIAS)
                   \o setGain(arg[1]) \o setMode(1) \o r.ops
        IN  /\ ops' = ops \o log
            /\ lastw' = Written(log, lastw)
            /\ xyz' = << r.x, r.y, r.z >>
    /\ i' = 0
    /\ pc' = IF 0 < arg[2] THEN "posloop" ELSE "negbias"
    /\ UNCHANGED << x_scale, y_scale, z_scale, op, arg, ret, werr, rerr, scale0,
                    xyz_total, bret, id, sat, mxyz, possat, ovf >>

\* variant of the loop body that never advances the loop counter
SampleNoCount(sign, again, next) ==
    \E rx \in DataAnswers :
        LET r == getRaw(rx)
            log == setMode(1) \o r.ops
            raw == << r.x, r.y, r.z >>
        IN  /\ ops' = ops \o log
            /\ lastw' = Written(log, lastw)
            /\ xyz_total' = [k \in 1..3 |-> Add32(xyz_total[k], sign * raw[k])]
            /\ xyz' = raw
            /\ sat' = (sat \/ \E k \in 1..3 : raw[k] <= -4096)
            /\ possat' = (possat \/ (sign = 1 /\ \E k \in 1..3 : raw[k] <= -4096))
            /\ ovf' = (ovf \/ \E k \in 1..3 : Overflows(xyz_total[k], sign * raw[k]))
            /\ IF Saturated(raw[1], raw[2], raw[3])
               THEN bret' = FALSE /\ i' = i /\ pc' = next
               ELSE bret' = bret /\ i' = i /\ pc' = again
            /\ UNCHANGED << x_scale, y_scale, z_scale, op, arg, ret, werr, rerr,
                            scale0, id, mxyz >>

\* one sample of a loop: sign = 1 adds it to the totals, sign = -1 subtracts
Sample(sign, again, next) ==
    \E rx \in DataAnswers :
        LET r == getRaw(rx)
            log == setMode(1) \o r.ops
            raw == << r.x, r.y, r.z >>
        IN  /\ ops' = ops \o log
            /\ lastw' = Written(log, lastw)
            /\ xyz_total' = [k \in 1..3 |-> Add32(xyz_total[k], sign * raw[k])]
            /\ xyz' = raw
            /\ sat' = (sat \/ \E k \in 1..3 : raw[k] <= -4096)
            /\ possat' = (possat \/ (sign = 1 /\ \E k \in 1..3 : raw[k] <= -4096))
            /\ ovf' = (ovf \/ \E k \in 1..3 : Overflows(xyz_total[k], sign * raw[k]))
            /\ IF Saturated(raw[1], raw[2], raw[3])
               THEN bret' = FALSE /\ i' = i /\ pc' = next
               ELSE /\ bret' = bret /\ i' = i + 1
                    /\ pc' = IF i + 1 < arg[2] THEN again ELSE next
            /\ UNCHANGED << x_scale, y_scale, z_scale, op, arg, ret, werr, rerr,
                            scale0, id, mxyz >>

\* the loop under positive bias
CalPosSample == pc = "posloop" /\ i < arg[2] /\ Sample(1, "posloop", "negbias")

\* the largest n_samples the totals are followed for
LargeSamples == 32768

\* samples at the ends of int16_t and at the two sides of the saturation test
ExtremeFields ==
    { << v, v, v >> : v \in {-32768, -4096, -4095, 0, 32767} }
        \cup { << 32767, 0, -32768 >> }

\* the numbers of consecutive iterations followed in one step when done
\* iterations of n are over: all that remain, or one, or all but one
BatchSizes(done, n) ==
    {n - done} \cup (IF done = 0 /\ n > 1 THEN {1, n - 1} ELSE {})

\* b consecutive iterations of a loop that read the same sample; the log
\* keeps the operations of one of them. The totals move in one direction
\* during the b iterations, so they leave int32_t during them exactly when
\* the last total is outside int32_t.
Batch(sign, again, next) ==
    \E f \in ExtremeFields, b \in BatchSizes(i, arg[2]) :
        LET r == getRaw(DataRegisters(f))
            log == setMode(1) \o r.ops
            raw == << r.x, r.y, r.z >>
            n == IF Saturated(raw[1], raw[2], raw[3]) THEN 1 ELSE b
        IN  /\ ops' = ops \o log
            /\ lastw' = Written(log, lastw)
            /\ xyz_total' = [k \in 1..3 |-> Add32(xyz_total[k], sign * n * raw[k])]
            /\ xyz' = raw
            /\ sat' = (sat \/ \E k \in 1..3 : raw[k] <= -4096)
            /\ possat' = (possat \/ (sign = 1 /\ \E k \in 1..3 : raw[k] <= -4096))
            /\ ovf' = (ovf \/ \E k \in 1..3 : Overflows(xyz_total[k], sign * n * raw[k]))
            /\ IF Saturated(raw[1], raw[2], raw[3])
               THEN bret' = FALSE /\ i' = i /\ pc' = next
               ELSE /\ bret' = bret /\ i' = i + n
                    /\ pc' = IF i + n < arg[2] THEN again ELSE next
            /\ UNCHANGED << x_scale, y_scale, z_scale, op, arg, ret, werr, rerr,
                            scale0, id, mxyz >>

CalPosBatch == pc = "posloop" /\ i < arg[2] /\ Batch(1, "posloop", "negbias")

CalNegBatch == pc = "negloop" /\ i < arg[2] /\ Batch(-1, "negloop", "check")

CalibrateLarge == CalibrateWith({7}, {1, 2, LargeSamples})

\* variant that sets the gain again before the negative loop
CalNegBiasRegain ==
    /\ pc = "negbias"
    /\ LET log == writeReg(HMC58X3_R_CONFA, 16 + HMC_NEG_BIAS) \o setGain(arg[1])
       IN  /\ ops' = ops \o log
           /\ lastw' = Written(log, lastw)
    /\ i' = 0
    /\ pc' = IF 0 < arg[2] THEN "negloop" ELSE "check"
    /\ UNCHANGED << x_scale, y_scale, z_scale, op, arg, ret, werr, rerr, scale0,
                    xyz_total, bret, id, sat, extra >>

\* negative bias
CalNegBias ==
    /\ pc = "negbias"
    /\ LET log == writeReg(HMC58X3_R_CONFA, 16 + HMC_NEG_BIAS)
       IN  /\ ops' = ops \o log
           /\ lastw' = Written(log, lastw)
    /\ i' = 0
    /\ pc' = IF 0 < arg[2] THEN "negloop" ELSE "check"
    /\ UNCHANGED << x_scale, y_scale, z_scale, op, arg, ret, werr, rerr, scale0,
                    xyz_total, bret, id, sat, extra >>

\* the loop under negative bias
CalNegSample == pc = "negloop" /\ i < arg[2] /\ Sample(-1, "negloop", "check")

\* variant of the last step that restores the configuration on success only
CalCheckRestoreOnSuccess ==
    /\ pc = "check"
    /\ IF Accepted(bret, xyz_total, arg[1], arg[2])
       THEN /\ x_scale' = ScaleOf(arg[1], HMC58X3_X_SELF_TEST_GAUSS, xyz_total[1], arg[2])
            /\ y_scale' = ScaleOf(arg[1], HMC58X3_Y_SELF_TEST_GAUSS, xyz_total[2], arg[2])
            /\ z_scale' = ScaleOf(arg[1], HMC58X3_Z_SELF_TEST_GAUSS, xyz_total[3], arg[2])
            /\ bret' = bret
            /\ LET log == writeReg(HMC58X3_R_CONFA, 16)
               IN  /\ ops' = ops \o log
                   /\ lastw' = Written(log, lastw)
       ELSE /\ UNCHANGED << x_scale, y_scale, z_scale, ops, lastw >>
            /\ bret' = FALSE
    /\ pc' = "ret"
    /\ UNCHANGED << op, arg, ret, werr, rerr, scale0, xyz_total, i, id, sat, extra >>

\* variant of the last step that also puts the mode back to continuous
CalCheckRestoreMode ==
    /\ pc = "check"
    /\ IF Accepted(bret, xyz_total, arg[1], arg[2])
       THEN /\ x_scale' = ScaleOf(arg[1], HMC58X3_X_SELF_TEST_GAUSS, xyz_total[1], arg[2])
            /\ y_scale' = ScaleOf(arg[1], HMC58X3_Y_SELF_TEST_GAUSS, xyz_total[2], arg[2])
            /\ z_scale' = ScaleOf(arg[1], HMC58X3_Z_SELF_TEST_GAUSS, xyz_total[3], arg[2])
            /\ bret' = bret
       ELSE /\ UNCHANGED << x_scale, y_scale, z_scale >>
            /\ bret' = FALSE
    /\ LET log == writeReg(HMC58X3_R_CONFA, 16) \o setMode(0)
       IN  /\ ops' = ops \o log
           /\ lastw' = Written(log, lastw)
    /\ pc' = "ret"
    /\ UNCHANGED << op, arg, ret, werr, rerr, scale0, xyz_total, i, id, sat, extra >>

\* variant of the last step that accepts and updates each axis on its own
CalCheckPerAxis ==
    /\ pc = "check"
    /\ LET low == low_limit(arg[1], arg[2])
           high == high_limit(arg[1], arg[2])
           good(k) == bret /\ low <= xyz_total[k] /\ high >= xyz_total[k]
       IN  /\ x_scale' = IF good(1)
                         THEN ScaleOf(arg[1], HMC58X3_X_SELF_TEST_GAUSS, xyz_total[1], arg[2])
                         ELSE x_scale
           /\ y_scale' = IF good(2)
                         THEN ScaleOf(arg[1], HMC58X3_Y_SELF_TEST_GAUSS, xyz_total[2], arg[2])
                         ELSE y_scale
           /\ z_scale' = IF good(3)
                         THEN ScaleOf(arg[1], HMC58X3_Z_SELF_TEST_GAUSS, xyz_total[3], arg[2])
                         ELSE z_scale
           /\ bret' = (good(1) /\ good(2) /\ good(3))
    /\ LET log == writeReg(HMC58X3_R_CONFA, 16)
       IN  /\ ops' = ops \o log
           /\ lastw' = Written(log, lastw)
    /\ pc' = "ret"
    /\ UNCHANGED << op, arg, ret, werr, rerr, scale0, xyz_total, i, id, sat, extra >>

\* the range check, the scale factors, the default configuration
CalCheck ==
    /\ pc = "check"
    /\ IF Accepted(bret, xyz_total, arg[1], arg[2])
       THEN /\ x_scale' = ScaleOf(arg[1], HMC58X3_X_SELF_TEST_GAUSS, xyz_total[1], arg[2])
            /\ y_scale' = ScaleOf(arg[1], HMC58X3_Y_SELF_TEST_GAUSS, xyz_total[2], arg[2])
            /\ z_scale' = ScaleOf(arg[1], HMC58X3_Z_SELF_TEST_GAUSS, xyz_total[3], arg[2])
            /\ bret' = bret
       ELSE /\ UNCHANGED << x_scale, y_scale, z_scale >>
            /\ bret' = FALSE
    /\ LET log == writeReg(HMC58X3_R_CONFA, 16)
       IN  /\ ops' = ops \o log
           /\ lastw' = Written(log, lastw)
    /\ pc' = "ret"
    /\ UNCHANGED << op, arg, ret, werr, rerr, scale0, xyz_total, i, id, sat, extra >>

\* return(bret): the locals go out of scope
CalReturn ==
    /\ pc = "ret"
    /\ ret' = bret
    /\ pc' = "done"
    /\ xyz_total' = <<0, 0, 0>> /\ bret' = TRUE /\ i' = 0 /\ id' = << >> /\ sat' = FALSE
    /\ NoExtra
    /\ UNCHANGED << x_scale, y_scale, z_scale, op, arg, ops, werr, rerr, scale0, lastw >>

Next ==
    \/ DoInit \/ DoSetMode \/ DoSetGain \/ DoSetDOR
    \/ DoGetRaw \/ DoGetValues \/ DoGetValues16 \/ DoGetID
    \/ CalibrateMax \/ MaxSample \/ MaxEnd \/ MaxReturn
    \/ Calibrate \/ CalGetID \/ CalPosBias \/ CalPosSample
    \/ CalNegBias \/ CalNegSample \/ CalCheck \/ CalReturn

Spec == Init /\ [][Next]_vars

\* the steps of a call that is running: the code is synchronous, a call that
\* has started executes its next statement
Running ==
    \/ CalGetID \/ CalPosBias \/ CalPosSample
    \/ CalNegBias \/ CalNegSample \/ CalCheck \/ CalReturn
    \/ MaxSample \/ MaxEnd \/ MaxReturn

\* calls of calibrate with large n_samples, up to the check of the totals
NextTotals ==
    \/ CalibrateLarge \/ CalGetID \/ CalPosBias \/ CalPosBatch
    \/ CalNegBias \/ CalNegBatch \/ CalReturn

TotalsSpec == Init /\ [][NextTotals]_vars

\* the largest n_samples the final test is followed for
LimitSamples == 1000

\* totals at and next to the limits, and at and next to 0 and n_samples
LimitTotals(gain, n_samples) ==
    LET low == low_limit(gain, n_samples)
        high == high_limit(gain, n_samples)
    IN  { << t, t, t >> : t \in {low - 1, low, high, high + 1, -1, 0, n_samples - 1, n_samples} }
            \cup { << low, high, low >>, << low, low, n_samples - 1 >>, << 0, low, high >> }

\* calibrate(gain, n_samples) in front of its final test, after two loops
\* without a saturated sample, for every gain and for totals around the limits
InitLimits ==
    /\ x_scale = One /\ y_scale = One /\ z_scale = One
    /\ scale0 = << One, One, One >>
    /\ op = "calibrate" /\ pc = "check" /\ ret = "none"
    /\ \E gain \in 0..7, n_samples \in {1, 2, 3, LimitSamples} :
        /\ arg = << gain, n_samples >>
        /\ i = n_samples
        /\ xyz_total \in LimitTotals(gain, n_samples)
        /\ lastw = [r \in {HMC58X3_R_CONFA, HMC58X3_R_CONFB, HMC58X3_R_MODE} |->
                        CASE r = HMC58X3_R_CONFA -> 16 + HMC_NEG_BIAS
                          [] r = HMC58X3_R_CONFB -> gain * 32
                          [] OTHER -> 1]
    /\ ops = << >> /\ werr = FALSE /\ rerr = FALSE
    /\ bret = TRUE /\ id = << 72, 52, 51 >> /\ sat = FALSE
    /\ mxyz = << Zero, Zero, Zero >> /\ possat = FALSE /\ ovf = FALSE
    /\ xyz = << 0, 0, 0 >>

NextLimits == CalCheck \/ CalReturn

LimitsSpec == InitLimits /\ [][NextLimits]_vars

LiveSpec == Init /\ [][Next]_vars /\ WF_vars(Running)

(***************************************************************************)
(* Properties.                                                             *)
(***************************************************************************)
Scales == << x_scale, y_scale, z_scale >>
H43 == << 72, 52, 51 >>
Writes(log) == SelectSeq(log, IsWrite)
IsDataRead(e) == e = R(HMC58X3_R_XM, 6)
IsBiasWrite(e) ==
    e = W(HMC58X3_R_CONFA, 16 + HMC_POS_BIAS) \/ e = W(HMC58X3_R_CONFA, 16 + HMC_NEG_BIAS)
Restore == W(HMC58X3_R_CONFA, 16)
\* calibrate(gain, n_samples) stands at its return statement
AtReturn == op = "calibrate" /\ pc = "ret"
\* the arguments of the running calibrate call are acceptable
ValidArgs == arg[1] <= 7 /\ arg[2] >= 1
Calibrated == scale0 # << One, One, One >>

\* C1: calibrate(gain, n_samples) with gain > 7 or n_samples = 0 returns
\* false, performs no transport operation at all and leaves the three scale
\* factors as they were before the call.
C1_ParamErrorNoAccess ==
    (op = "calibrate" /\ (arg[1] > 7 \/ arg[2] = 0)) =>
        /\ pc \in {"ret", "done"}
        /\ ops = << >>
        /\ Scales = scale0
        /\ (pc = "ret" => bret = FALSE)
        /\ (pc = "done" => ret = FALSE)

C1_Witness ==
    /\ pc = "done" /\ op = "calibrate" /\ arg[1] > 7 /\ arg[2] >= 1
    /\ ret = FALSE /\ Calibrated

\* C2: calibrate with acceptable arguments that reads identity bytes other
\* than 'H','4','3' returns false, writes neither bias pattern to
\* configuration register A, reads no sample and leaves the scale factors
\* unchanged.
C2_IdMismatch ==
    (AtReturn /\ ValidArgs /\ id # H43) =>
        /\ bret = FALSE
        /\ \A k \in 1..Len(ops) : ~IsBiasWrite(ops[k]) /\ ~IsDataRead(ops[k])
        /\ Scales = scale0

C2_Witness ==
    AtReturn /\ ValidArgs /\ id = << 72, 52, 50 >> /\ rerr = FALSE /\ Calibrated

\* C3: the scale factors change all three or not at all: they keep their
\* values from before the call while calibrate runs and on every failing
\* return, and on a successful return each of the three holds the value
\* computed from its own total.
C3_Expected(gauss, k) ==
    << counts_per_milligauss[arg[1] + 1] * gauss * 2, 100 * (xyz_total[k] \div arg[2]) >>

C3_AllOrNone ==
    op = "calibrate" =>
        /\ (pc \notin {"ret", "done"} => Scales = scale0)
        /\ (pc = "ret" /\ bret = FALSE => Scales = scale0)
        /\ (pc = "done" /\ ret = FALSE => Scales = scale0)
        /\ (pc = "ret" /\ bret = TRUE =>
                Scales = << C3_Expected(HMC58X3_X_SELF_TEST_GAUSS, 1),
                            C3_Expected(HMC58X3_Y_SELF_TEST_GAUSS, 2),
                            C3_Expected(HMC58X3_Z_SELF_TEST_GAUSS, 3) >>)

\* a failing return where two totals are within the limits and one is not
C3_Witness ==
    /\ AtReturn /\ ValidArgs /\ id = H43 /\ ~sat /\ bret = FALSE /\ Calibrated
    /\ low_limit(arg[1], arg[2]) <= xyz_total[1] /\ xyz_total[1] <= high_limit(arg[1], arg[2])
    /\ low_limit(arg[1], arg[2]) <= xyz_total[2] /\ xyz_total[2] <= high_limit(arg[1], arg[2])
    /\ xyz_total[3] < low_limit(arg[1], arg[2])

InLimits(k) ==
    low_limit(arg[1], arg[2]) <= xyz_total[k] /\ xyz_total[k] <= high_limit(arg[1], arg[2])

\* C4: when a sample of the positive or of the negative loop has an axis at
\* or below -4096, calibrate returns false and the write that puts
\* configuration register A back to its default is issued exactly once, as
\* the last transport operation of the call (after the last sample read).
C4_SaturationRestoresOnce ==
    (AtReturn /\ ValidArgs /\ id = H43 /\ sat) =>
        /\ bret = FALSE
        /\ Cardinality({ k \in 1..Len(ops) : ops[k] = Restore }) = 1
        /\ ops[Len(ops)] = Restore

\* a saturated run whose three totals are within the limits
C4_Witness ==
    AtReturn /\ ValidArgs /\ id = H43 /\ sat /\ InLimits(1) /\ InLimits(2) /\ InLimits(3)

\* C5 as stated: every call of calibrate, whatever its outcome, ends with the
\* restore write issued.
C5_AlwaysRestores ==
    AtReturn => \E k \in 1..Len(ops) : ops[k] = Restore

\* C5 amended: every call that passes the parameter check and the identity
\* check ends with the restore write as its last transport operation,
\* whatever happens after these checks; a call that fails one of the two
\* checks issues no register write.
C5_RestoreAfterChecks ==
    AtReturn =>
        IF ValidArgs /\ id = H43
        THEN Len(ops) > 0 /\ ops[Len(ops)] = Restore
        ELSE Writes(ops) = << >>

\* a run without saturation that fails the range check
C5_Witness ==
    /\ AtReturn /\ ValidArgs /\ id = H43 /\ ~sat /\ bret = FALSE
    /\ xyz_total[3] > high_limit(arg[1], arg[2])

\* C6: calibrate returns true exactly when the arguments are acceptable, the
\* identity bytes are 'H','4','3', no loop sample was saturated and each of
\* the three totals lies within [low_limit, high_limit], both ends included.
C6_SuccessIff ==
    AtReturn =>
        (bret = TRUE <=>
            (ValidArgs /\ id = H43 /\ ~sat /\ InLimits(1) /\ InLimits(2) /\ InLimits(3)))

\* a successful return with a total exactly at the low limit
C6_Witness ==
    AtReturn /\ bret = TRUE /\ xyz_total[1] = low_limit(arg[1], arg[2])

\* C7: setMode(m) with m > 2, setGain(g) with g > 7 and setDOR(r) with r > 6
\* perform no transport operation and leave the scale factors unchanged; with
\* an argument in range each issues exactly one write, to the mode register,
\* configuration register B and configuration register A respectively.
C7_OneWriteTo(reg) ==
    Len(Writes(ops)) = 1 /\ Writes(ops)[1][2] = reg

C7_SetterRange ==
    pc = "done" =>
        /\ (op = "setMode" =>
                /\ Scales = scale0
                /\ IF arg[1] > 2 THEN ops = << >> ELSE C7_OneWriteTo(HMC58X3_R_MODE))
        /\ (op = "setGain" =>
                /\ Scales = scale0
                /\ IF arg[1] > 7 THEN ops = << >> ELSE C7_OneWriteTo(HMC58X3_R_CONFB))
        /\ (op = "setDOR" =>
                /\ Scales = scale0
                /\ IF arg[1] > 6 THEN ops = << >> ELSE C7_OneWriteTo(HMC58X3_R_CONFA))

C7_Witness ==
    pc = "done" /\ op = "setGain" /\ arg[1] > 7 /\ Calibrated /\ lastw[HMC58X3_R_CONFB] = 0

\* C8: when the transport reports a failure for the register write of
\* setMode, setGain or setDOR called with an argument in range, the caller
\* gets an outcome that tells the failure from a success.
C8_WriteFailureSurfaced ==
    (pc = "done" /\ op \in {"setMode", "setGain", "setDOR"} /\ werr) => ret # "void"

\* C9: init issues no register write before the delay of 5 ms, then writes
\* the mode register (only when setmode is true), configuration register A
\* without bias, configuration register B and the mode register, in this
\* order; afterwards the last value written to A has no bias bit set and the
\* last value written to the mode register is 0.
C9_InitOrder ==
    (pc = "done" /\ op = "init") =>
        /\ ops[1][1] = "d" /\ ops[1][2] >= 5
        /\ [k \in 1..Len(Writes(ops)) |-> Writes(ops)[k][2]]
              = (IF arg[1] THEN << HMC58X3_R_MODE >> ELSE << >>)
                \o << HMC58X3_R_CONFA, HMC58X3_R_CONFB, HMC58X3_R_MODE >>
        /\ lastw[HMC58X3_R_CONFA] # -1 /\ lastw[HMC58X3_R_CONFA] % 4 = 0
        /\ lastw[HMC58X3_R_MODE] = 0

C9_Witness ==
    pc = "done" /\ op = "init" /\ arg[1] = TRUE /\ Calibrated

\* C10: when the transport read of the identity registers fails, getID
\* returns 0,0,0; calibrate with acceptable arguments then fails on the
\* identity check with no register write and the scale factors unchanged.
C10_IdReadFailure ==
    /\ (pc = "done" /\ op = "getID" /\ rerr) => ret = << 0, 0, 0 >>
    /\ (AtReturn /\ ValidArgs /\ rerr) =>
            /\ id = << 0, 0, 0 >>
            /\ bret = FALSE
            /\ Writes(ops) = << >>
            /\ Scales = scale0

C10_Witness ==
    AtReturn /\ ValidArgs /\ rerr /\ Calibrated

DataReads(log) == Len(SelectSeq(log, IsDataRead))
IsIdRead(e) == e = R(HMC58X3_R_IDA, 3)

\* the number of statements a running call has left at most
C11_Rank ==
    CASE pc = "done" -> 0
      [] pc = "ret" -> 1
      [] pc = "check" -> 2
      [] pc = "negloop" -> 3 + (arg[2] - i)
      [] pc = "negbias" -> 4 + arg[2]
      [] pc = "posloop" -> 5 + arg[2] + (arg[2] - i)
      [] pc = "posbias" -> 6 + 2 * arg[2]
      [] pc = "getID" -> 7 + 2 * arg[2]

\* C11: every call of calibrate(gain, n_samples) runs to completion: while
\* it runs its next statement can always execute and each statement brings
\* the return strictly closer (no step is repeated or retried), it returns
\* true or false, and it never reads more than 1 + 2*n_samples raw samples
\* nor the identity more than once.
C11_RunsToCompletion ==
    /\ [](op = "calibrate" =>
            /\ DataReads(ops) <= 1 + 2 * arg[2]
            /\ Len(SelectSeq(ops, IsIdRead)) <= 1
            /\ C11_Rank >= 0
            /\ (pc # "done" => ENABLED Running)
            /\ (pc = "done" => ret \in BOOLEAN))
    /\ [][(op = "calibrate" /\ pc # "done") => (Running /\ C11_Rank' < C11_Rank)]_vars

\* the same under fairness: a running call eventually returns
C11_Eventually ==
    (op = "calibrate" /\ pc # "done") ~> (op = "calibrate" /\ pc = "done" /\ ret \in BOOLEAN)

\* a completed call that took all its 1 + 2*n_samples readings
C11_Witness ==
    /\ op = "calibrate" /\ pc = "done" /\ ret = FALSE
    /\ arg[2] = MaxSamples /\ DataReads(ops) = 1 + 2 * arg[2]

\* the scale factors are positive finite numbers
PositiveScales ==
    \A f \in { x_scale, y_scale, z_scale } : f[1] > 0 /\ f[2] > 0

\* the float f = <<num, den>>, den > 0, rounded to the nearest integer with
\* halves rounded up: floor(f + 1/2), cut to 16 bits
RoundHalfUp(f) == ToInt16((2 * f[1] + f[2]) \div (2 * f[2]))

\* C12: getValues(int16_t*) gives, for each axis, the calibrated value
\* rounded to the nearest integer with halves rounded up, for negative
\* samples too, whenever the scale factors are positive.
C12_RoundsHalfUp ==
    (pc = "done" /\ op = "getValues16" /\ PositiveScales)
        => \A k \in 1..3 : ret[1][k] = RoundHalfUp(ret[2][k])

\* C13: during calibrate no addition to and no subtraction from a total
\* leaves the range of int32_t, for n_samples up to 32768 and samples
\* anywhere in int16_t.
C13_TotalsInRange ==
    /\ ~ovf
    /\ \A k \in 1..3 : xyz_total[k] >= -INT32_MAX - 1 /\ xyz_total[k] <= INT32_MAX

\* the largest total there is: 32767 added n times, -4095 subtracted n - 1
\* times and -32768 once
C13_Witness ==
    /\ pc = "check" /\ arg[2] = LargeSamples
    /\ xyz_total[1] = 32767 * LargeSamples + 4095 * (LargeSamples - 1) + 32768

\* the transport operations of a log without the delays
IsTransfer(e) == e[1] # "d"
Transfers(log) == SelectSeq(log, IsTransfer)
\* k times: the write that starts a single measurement, then a read of the
\* data registers
Readings(k) ==
    [ j \in 1..(2 * k) |-> IF j % 2 = 1 THEN W(HMC58X3_R_MODE, 1) ELSE R(HMC58X3_R_XM, 6) ]
WritesTo(log, reg) == { k \in 1..Len(log) : IsWrite(log[k]) /\ log[k][2] = reg }

\* C14: a run of calibrate that passes the parameter and the identity check
\* writes in this order: positive bias to configuration register A, the
\* gain to configuration register B, the measurements and reads under
\* positive bias, negative bias to register A, the measurements and reads
\* under negative bias, the default to register A; register B is written
\* once and register A three times.
C14_WriteOrder ==
    (AtReturn /\ ValidArgs /\ id = H43) =>
        /\ \E p \in 0..arg[2], q \in 0..arg[2] :
              Transfers(ops) =
                  << R(HMC58X3_R_IDA, 3),
                     W(HMC58X3_R_CONFA, 16 + HMC_POS_BIAS),
                     W(HMC58X3_R_CONFB, arg[1] * 32) >>
                  \o Readings(1 + p)
                  \o << W(HMC58X3_R_CONFA, 16 + HMC_NEG_BIAS) >>
                  \o Readings(q)
                  \o << Restore >>
        /\ Cardinality(WritesTo(ops, HMC58X3_R_CONFB)) = 1
        /\ Cardinality(WritesTo(ops, HMC58X3_R_CONFA)) = 3

\* a run that takes every sample of both loops
C14_Witness ==
    /\ AtReturn /\ ValidArgs /\ id = H43 /\ ~sat
    /\ arg[2] = MaxSamples /\ arg[1] = 7
    /\ Len(Writes(ops)) = 5 + 2 * arg[2]

\* every read of the data registers in the log comes right after a write
\* that starts a single measurement
ReadsTriggered(log) ==
    LET t == Transfers(log)
    IN  \A k \in 1..Len(t) :
            IsDataRead(t[k]) => k > 1 /\ t[k - 1] = W(HMC58X3_R_MODE, 1)

\* what one step of a running calibrate does to the totals
C15_Step ==
    op = "calibrate" =>
        CASE pc = "posbias" ->
                /\ xyz' # << >> /\ xyz_total' = <<0, 0, 0>>
                /\ DataReads(ops') = 1
          [] pc = "posloop" ->
                /\ xyz_total' = [k \in 1..3 |-> xyz_total[k] + xyz'[k]]
                /\ DataReads(ops') = DataReads(ops) + 1
          [] pc = "negloop" ->
                /\ xyz_total' = [k \in 1..3 |-> xyz_total[k] - xyz'[k]]
                /\ DataReads(ops') = DataReads(ops) + 1
          [] pc \in {"getID", "negbias", "check"} ->
                /\ xyz_total' = xyz_total
                /\ DataReads(ops') = DataReads(ops)
          [] OTHER -> TRUE

\* C15: in a run of calibrate without a saturated sample every read of the
\* data registers follows a write that starts a single measurement, the
\* first reading changes no total, every reading of the positive loop is
\* added to the totals and every reading of the negative loop subtracted
\* and nothing else changes them, and 1 + 2 * n_samples readings are made.
C15_SaturationFree ==
    /\ []((AtReturn /\ ValidArgs /\ id = H43 /\ ~sat) =>
            /\ ReadsTriggered(ops)
            /\ DataReads(ops) = 1 + 2 * arg[2])
    /\ [][C15_Step]_vars

\* two samples (286, 286, 286) and (0, 0, 1) make the totals (286, 286, 285)
C15_Witness ==
    /\ AtReturn /\ ValidArgs /\ id = H43 /\ ~sat
    /\ DataReads(ops) = 1 + 2 * arg[2]
    /\ xyz_total = << 286, 286, 285 >>

\* the number of reads of the data registers after the write of the
\* negative bias
NegReads(log) ==
    LET t == Transfers(log)
        at == { k \in 1..Len(t) : t[k] = W(HMC58X3_R_CONFA, 16 + HMC_NEG_BIAS) }
    IN  Cardinality({ k \in 1..Len(t) : IsDataRead(t[k]) /\ \E j \in at : j < k })

\* C16: a saturated sample of the positive loop is added to the totals and
\* ends that loop, no further sample is read under positive bias; the
\* negative bias is still written and the negative loop still runs, and the
\* call returns false whatever the totals are.
C16_PositiveSaturation ==
    /\ []((op = "calibrate" /\ pc = "posloop") => ~possat)
    /\ []((AtReturn /\ possat) =>
            /\ bret = FALSE /\ Scales = scale0
            /\ \E k \in 1..Len(ops) : ops[k] = W(HMC58X3_R_CONFA, 16 + HMC_NEG_BIAS)
            /\ \/ NegReads(ops) = arg[2]
               \/ NegReads(ops) >= 1 /\ Saturated(xyz[1], xyz[2], xyz[3]))
    /\ [][(op = "calibrate" /\ possat') =>
            IF possat THEN pc # "posloop"
            ELSE /\ pc = "posloop" /\ pc' = "negbias"
                 /\ xyz_total' = [k \in 1..3 |-> xyz_total[k] + xyz'[k]]]_vars

\* the positive loop saturated, the negative loop ran to its end and the
\* three totals are within the limits
C16_Witness ==
    /\ AtReturn /\ possat /\ InLimits(1) /\ InLimits(2) /\ InLimits(3)
    /\ NegReads(ops) = arg[2]

\* calibrate(gain) stands at its end
AtMaxReturn == op = "calibrate(gain)" /\ pc = "maxret"
\* the largest of the three maxima, a whole number while the scale factors
\* are 1
LargestMax ==
    LET m(k) == mxyz[k][1]
    IN  IF m(1) >= m(2) /\ m(1) >= m(3) THEN m(1)
        ELSE IF m(2) >= m(3) THEN m(2) ELSE m(3)
\* the scale factor s is LargestMax divided by the maximum m of its axis:
\* infinite or not a number when m is 0
IsMaxOver(s, m) ==
    IF m[1] = 0 THEN s = (IF LargestMax = 0 THEN <<0, 0>> ELSE <<1, 0>>)
    ELSE s[2] > 0 /\ s[1] * m[1] = LargestMax * s[2]

\* C17: calibrate(gain) has no failure path: for every gain, also above 7
\* where no gain is written, it writes the positive bias to configuration
\* register A, takes 10 readings each after a write that starts a single
\* measurement, assigns all three scale factors and ends with the write of
\* the default to register A, then returns.
C17_SimpleAlwaysCompletes ==
    /\ [](AtMaxReturn =>
            /\ Transfers(ops) =
                    << W(HMC58X3_R_CONFA, 16 + HMC_POS_BIAS) >>
                    \o (IF arg[1] <= 7 THEN << W(HMC58X3_R_CONFB, arg[1] * 32) >> ELSE << >>)
                    \o Readings(SimpleReadings)
                    \o << Restore >>
            /\ IsMaxOver(x_scale, mxyz[1])
            /\ IsMaxOver(y_scale, mxyz[2])
            /\ IsMaxOver(z_scale, mxyz[3]))
    /\ []((op = "calibrate(gain)" /\ pc # "done") => ENABLED (MaxSample \/ MaxEnd \/ MaxReturn))
    /\ []((op = "calibrate(gain)" /\ pc = "done") => ret = "void")
    /\ [][(op = "calibrate(gain)" /\ pc # "done") => (MaxSample \/ MaxEnd \/ MaxReturn)]_vars

\* a degenerate run: gain above 7, no positive reading, on an object that
\* was calibrated before
C17_Witness ==
    /\ AtMaxReturn /\ arg[1] > 7 /\ LargestMax = 0
    /\ Calibrated /\ Scales = << <<0, 0>>, <<0, 0>>, <<0, 0>> >>

\* the value last written to configuration register A has a self test bias
\* bit (MS1, MS0) set
BiasLatched ==
    lastw[HMC58X3_R_CONFA] # -1 /\ lastw[HMC58X3_R_CONFA] % 4 # 0

\* C18: after any sequence of completed operations the value last written
\* to configuration register A, if any, has both bias bits clear; a bias
\* pattern is the last one written only while a call of calibrate runs.
C18_NoBiasLeft ==
    /\ pc = "done" => ~BiasLatched
    /\ BiasLatched => op \in {"calibrate", "calibrate(gain)"} /\ pc # "done"

\* a failed self test calibration has put the default back
C18_Witness ==
    /\ pc = "done" /\ op = "calibrate" /\ ret = FALSE
    /\ Len(ops) > 1 /\ lastw[HMC58X3_R_CONFA] = 16 /\ lastw[HMC58X3_R_MODE] = 1

\* C20: calibration does not put back the mode or the gain: at the return
\* of a calibrate(gain, n_samples) that passed the parameter and the
\* identity check, whatever its result, and at the end of calibrate(gain),
\* the value last written to the mode register is 1 (single measurement);
\* after calibrate(gain, n_samples) the value last written to configuration
\* register B is the requested gain.
C20_ModeAndGainStay ==
    /\ (AtReturn /\ ValidArgs /\ id = H43) =>
            /\ lastw[HMC58X3_R_MODE] = 1
            /\ lastw[HMC58X3_R_CONFB] = arg[1] * 32
    /\ AtMaxReturn => lastw[HMC58X3_R_MODE] = 1
    /\ (pc = "done" /\ op \in {"calibrate", "calibrate(gain)"} /\ HasWrite(ops))
            => lastw[HMC58X3_R_MODE] = 1

\* a successful calibration with gain 7
C20_Witness ==
    /\ AtReturn /\ bret /\ arg[1] = 7 /\ Scales # scale0
    /\ lastw[HMC58X3_R_MODE] = 1 /\ lastw[HMC58X3_R_CONFB] = 224

\* C19: when calibrate succeeds, the quotient total / n_samples that each
\* scale factor is divided by is at least 1 on all three axes, for every
\* gain 0..7 and every n_samples >= 1: the lower limit is at least n_samples
\* and an accepted total is at least the lower limit.
C19_DivisorPositive ==
    /\ op = "calibrate" => low_limit(arg[1], arg[2]) >= arg[2]
    /\ (AtReturn /\ bret) =>
            \A k \in 1..3 :
                /\ xyz_total[k] >= arg[2]
                /\ UDiv(xyz_total[k], arg[2]) >= 1
                /\ Scales[k][2] > 0

\* success at the lower limit with the largest number of samples, gain 0
C19_Witness ==
    /\ AtReturn /\ bret /\ arg = << 0, LimitSamples >>
    /\ xyz_total[1] = low_limit(0, LimitSamples)
    /\ Scales # scale0

====
